---- MODULE Spec2Model ----
(***************************************************************************)
(* Model of excalidraw-go-file-store (src/main.go): the upload handler,    *)
(* the download handler and the key generator over a file-system store.    *)
(*                                                                         *)
(* Strings are sequences of one-character strings, so that the path and    *)
(* key conversions (fmt.Sprintf("%d"), filepath.Base, filepath.Join) are   *)
(* computed and not assumed.  The store is a POSIX directory: names map to *)
(* inodes, inodes hold bytes, an open handle keeps its inode alive after   *)
(* the name is removed.                                                    *)
(***************************************************************************)
EXTENDS Integers, Sequences, FiniteSets, TLC

\* ------------------------------------------------------------------ bounds

\* The byte cap of main.go:18 (50 MiB there), scaled so that bodies up to
\* one byte over the cap can be enumerated.
maxUploadSize == 2

\* The number of upload requests and of download requests of a behaviour.
MaxUploads == 2
MaxDownloads == 1

\* How many times the clock read by generateUniqueID advances.
MaxTicks == 1

\* ------------------------------------------------------ program constants

\* os.Getpid() of the serving process.
Pid == 7

\* time.Now().UnixNano() when the process starts.
ClockStart == 10

Uploads == 1..MaxUploads
Downloads == 1..MaxDownloads

StatusOK == 200
StatusMethodNotAllowed == 405
StatusNotFound == 404
StatusRequestEntityTooLarge == 413
StatusInternalServerError == 500

\* ----------------------------------------------------------------- strings

Digit(d) ==
  CASE d = 0 -> "0" [] d = 1 -> "1" [] d = 2 -> "2" [] d = 3 -> "3"
    [] d = 4 -> "4" [] d = 5 -> "5" [] d = 6 -> "6" [] d = 7 -> "7"
    [] d = 8 -> "8" [] d = 9 -> "9"

\* fmt.Sprintf("%d", n) for n >= 0: the decimal digits, most significant first.
RECURSIVE Itoa(_)
Itoa(n) == IF n < 10 THEN <<Digit(n)>> ELSE Itoa(n \div 10) \o <<Digit(n % 10)>>

\* generateUniqueID: the pid's digits followed by the clock's digits.
generateUniqueID(pid, nanos) == Itoa(pid) \o Itoa(nanos)

\* dataDir: "./data", the default of getDataDir.
dataDir == <<".", "/", "d", "a", "t", "a">>

UploadPath == <<"/", "a", "p", "i", "/", "v", "2", "/", "p", "o", "s", "t", "/">>
DownloadPrefix == <<"/", "a", "p", "i", "/", "v", "2", "/">>

\* ----------------------------------------------------------------- routing

HasPrefix(p, pre) == Len(p) >= Len(pre) /\ SubSeq(p, 1, Len(pre)) = pre

\* The routes of main: http.HandleFunc("/api/v2/post/", handleUpload) and
\* http.HandleFunc("/api/v2/", handleDownload); the longest pattern wins.
Route(path) ==
  IF HasPrefix(path, UploadPath) THEN "handleUpload"
  ELSE IF HasPrefix(path, DownloadPrefix) THEN "handleDownload"
  ELSE "NotFound"

\* ------------------------------------------------------------------- paths

IsPathSeparator(c) == c = "/"

RECURSIVE StripTrailing(_)
StripTrailing(p) ==
  IF Len(p) > 0 /\ IsPathSeparator(p[Len(p)]) THEN StripTrailing(SubSeq(p, 1, Len(p) - 1))
  ELSE p

\* The index of the last separator of p, 0 when it has none.
RECURSIVE LastSep(_, _)
LastSep(p, i) ==
  IF i = 0 THEN 0 ELSE IF IsPathSeparator(p[i]) THEN i ELSE LastSep(p, i - 1)

\* filepath.Base: the last element of the path, trailing separators removed;
\* "." for the empty path, "/" for a path of separators only.
Base(path) ==
  IF path = <<>> THEN <<".">>
  ELSE LET s == StripTrailing(path)
           i == LastSep(s, Len(s))
           e == SubSeq(s, i + 1, Len(s))
       IN IF e = <<>> THEN <<"/">> ELSE e

\* The elements of p between separators (empty elements included).
RECURSIVE Split(_)
Split(p) ==
  IF p = <<>> THEN <<<<>>>>
  ELSE LET rest == Split(Tail(p))
       IN IF IsPathSeparator(Head(p)) THEN <<<<>>>> \o rest
          ELSE <<<<Head(p)>> \o Head(rest)>> \o Tail(rest)

\* filepath.Clean on the elements: "" and "." are dropped, ".." removes the
\* element before it, or stays when a relative path has nothing left to remove.
RECURSIVE CleanSegs(_, _, _)
CleanSegs(rooted, segs, out) ==
  IF segs = <<>> THEN out
  ELSE LET s == Head(segs)
           r == Tail(segs)
       IN IF s = <<>> \/ s = <<".">> THEN CleanSegs(rooted, r, out)
          ELSE IF s = <<".", ".">> THEN
            IF Len(out) > 0 /\ out[Len(out)] # <<".", ".">>
              THEN CleanSegs(rooted, r, SubSeq(out, 1, Len(out) - 1))
            ELSE IF rooted THEN CleanSegs(rooted, r, out)
            ELSE CleanSegs(rooted, r, Append(out, s))
          ELSE CleanSegs(rooted, r, Append(out, s))

\* filepath.Clean: a cleaned path is whether it is rooted and its elements.
Clean(p) ==
  LET rooted == Len(p) > 0 /\ IsPathSeparator(p[1])
  IN [rooted |-> rooted, segs |-> CleanSegs(rooted, Split(p), <<>>)]

\* filepath.Join(dir, elem): the non-empty parts joined by a separator, cleaned.
Join(dir, elem) ==
  IF dir = <<>> THEN Clean(elem)
  ELSE IF elem = <<>> THEN Clean(dir)
  ELSE Clean(dir \o <<"/">> \o elem)

\* The cleaned storage root.
Root == Clean(dataDir)

\* A cleaned path names an entry directly under the storage root.
UnderRoot(fp) ==
  /\ fp.rooted = Root.rooted
  /\ Len(fp.segs) = Len(Root.segs) + 1
  /\ SubSeq(fp.segs, 1, Len(Root.segs)) = Root.segs
  /\ fp.segs[Len(fp.segs)] # <<".", ".">>

\* A cleaned path names the storage root or one of its ancestors (a directory
\* that is not a blob): "." and "..", the root's prefixes.
IsAncestorOrRoot(fp) ==
  /\ fp.rooted = Root.rooted
  /\ \/ /\ Len(fp.segs) <= Len(Root.segs)
        /\ fp.segs = SubSeq(Root.segs, 1, Len(fp.segs))
     \/ \A i \in 1..Len(fp.segs) : fp.segs[i] = <<".", ".">>


\* ------------------------------------------------------------------- state

VARIABLES
  clock,      \* time.Now().UnixNano(), as generateUniqueID reads it
  dirExists,  \* whether the directory dataDir exists
  dir,        \* the entries of dataDir: file name -> inode
  data,       \* the bytes of every inode that is linked or held open
  up,         \* the upload requests: handler position, locals and response
  dl          \* the download requests: handler position, locals and response

vars == <<clock, dirExists, dir, data, up, dl>>

Methods == {"GET", "POST", "OPTIONS"}

\* The values of r.Header.Get("Origin"): the origin the tests treat as allowed,
\* an origin that is not allowed, and "" for a request without the header.
Origins == <<"https://excalidraw.com", "http://untrusted-origin.com", "">>

\* The Origin header of upload request u: each request carries a fixed origin
\* and the requests between them carry every value.
OriginOf(u) == Origins[((u - 1) % Len(Origins)) + 1]

\* w.Header() before the handler sets anything: header name -> value.
NoHeaders == [h \in {} |-> ""]

\* The three w.Header().Set calls of handleUpload.
UploadCORS(origin) ==
  [h \in {"Access-Control-Allow-Origin", "Access-Control-Allow-Methods",
          "Access-Control-Allow-Headers"} |->
     IF h = "Access-Control-Allow-Origin" THEN origin
     ELSE IF h = "Access-Control-Allow-Methods" THEN "POST"
     ELSE "Content-Type"]

\* The two w.Header().Set calls of handleDownload.
DownloadCORS ==
  [h \in {"Access-Control-Allow-Origin", "Access-Control-Allow-Methods"} |->
     IF h = "Access-Control-Allow-Origin" THEN "*" ELSE "GET"]

NoResp ==
  [status |-> 0, ctype |-> "", text |-> <<>>, dataKey |-> <<>>, url |-> <<>>, body |-> <<>>]

\* http.Error(w, msg, code): a plain-text body, the message and a newline.
HttpError(msg, code) ==
  [status |-> code, ctype |-> "text/plain; charset=utf-8", text |-> msg \o <<"\n">>,
   dataKey |-> <<>>, url |-> <<>>, body |-> <<>>]

\* The values of r.Host: no Host header (HTTP/1.0), and a name with a port.
Hosts == <<<<>>, <<"h", ":", "8">>>>

\* The connection and the Host header of upload request u: the handler reads
\* them once, for the URL of a 200 response, so each request carries a fixed
\* pair and the requests between them carry every value.
TLSOf(u) == u % 2 = 0
HostOf(u) == Hosts[((u \div 2) % 2) + 1]

\* The scheme of the retrieval URL, by whether r.TLS is set.
Scheme(tls) == IF tls THEN <<"h", "t", "t", "p", "s">> ELSE <<"h", "t", "t", "p">>

\* A retrieval URL that names the scheme of a secured connection always.
RetrievalURLSecure(tls, host, dataKey) ==
  Scheme(TRUE) \o <<":", "/", "/">> \o host \o DownloadPrefix \o dataKey

\* fmt.Sprintf("%s://%s/api/v2/%s", scheme, r.Host, dataKey)
RetrievalURL(tls, host, dataKey) ==
  Scheme(tls) \o <<":", "/", "/">> \o host \o DownloadPrefix \o dataKey

\* json.NewEncoder(w).Encode(UploadResponse{DataKey: dataKey, URL: url}) with
\* status 200.
UploadResponse(dataKey, url) ==
  [status |-> StatusOK, ctype |-> "application/json", text |-> <<>>,
   dataKey |-> dataKey, url |-> url, body |-> <<>>]

\* The response of a download that streamed `body` (status 200 is implied by the
\* first write, or by the handler returning without writing a header).
StreamResponse(body) ==
  [status |-> StatusOK, ctype |-> "application/octet-stream", text |-> <<>>,
   dataKey |-> <<>>, url |-> <<>>, body |-> body]

IdleUpload ==
  [pc |-> "idle", method |-> "", origin |-> "", hdr |-> NoHeaders,
   dataKey |-> <<>>, filePath |-> [rooted |-> FALSE, segs |-> <<>>],
   fd |-> 0, n |-> 0, body |-> <<>>, declared |-> -1, sent |-> 0, err |-> "", resp |-> NoResp]

IdleDownload ==
  [pc |-> "idle", method |-> "", hdr |-> NoHeaders, path |-> <<>>, dataKey |-> <<>>,
   filePath |-> [rooted |-> FALSE, segs |-> <<>>], fd |-> 0, off |-> 0,
   out |-> <<>>, after |-> {}, err |-> "", resp |-> NoResp]

Init ==
  /\ clock = ClockStart
  /\ dirExists = FALSE
  /\ dir = [k \in {} |-> 0]
  /\ data = [i \in {} |-> <<>>]
  /\ up = [u \in Uploads |-> IdleUpload]
  /\ dl = [d \in Downloads |-> IdleDownload]

\* ------------------------------------------------------------- file system

FileName(fp) == fp.segs[Len(fp.segs)]

\* What a cleaned path names: a blob file, a directory, or nothing.
Kind(fp) ==
  IF UnderRoot(fp) THEN (IF dirExists /\ FileName(fp) \in DOMAIN dir THEN "file" ELSE "none")
  ELSE IF IsAncestorOrRoot(fp) THEN (IF fp = Root /\ ~dirExists THEN "none" ELSE "dir")
  ELSE "none"

\* The smallest inode number not in use.
FreshInode == CHOOSE i \in 1..(Cardinality(DOMAIN data) + 1) : i \notin DOMAIN data

\* The inodes that are linked in the directory or held open by a handler.
Live(dirN, upN, dlN) ==
  {dirN[k] : k \in DOMAIN dirN}
    \cup {upN[u].fd : u \in Uploads} \cup {dlN[d].fd : d \in Downloads}

\* The inodes kept after a close or an unlink: an inode with no name and no
\* open handle is freed.
Collect(dataN, dirN, upN, dlN) ==
  [i \in (DOMAIN dataN) \cap Live(dirN, upN, dlN) |-> dataN[i]]

\* file.Write at offset off (each handle has its own offset; a write past the
\* end of a truncated file zero-fills the gap).
RECURSIVE Zeros(_)
Zeros(k) == IF k <= 0 THEN <<>> ELSE <<0>> \o Zeros(k - 1)

WriteAt(content, off, b) ==
  IF off < Len(content) THEN [content EXCEPT ![off + 1] = b]
  ELSE content \o Zeros(off - Len(content)) \o <<b>>

\* The directory without the entry `name` (os.Remove's unlink).
Unlink(name) == [k \in (DOMAIN dir) \ {name} |-> dir[k]]

\* -------------------------------------------------------------------- clock

\* The wall clock advances; two reads between two advances see the same value.
Tick ==
  /\ clock < ClockStart + MaxTicks
  /\ clock' = clock + 1
  /\ UNCHANGED <<dirExists, dir, data, up, dl>>


\* ----------------------------------------------------------- handleUpload

\* A request slot is taken when the slots before it are: the slots are names
\* of requests, in the order the requests arrive.
MayArrive(reqs, i) ==
  reqs[i].pc = "idle" /\ (IF i = 1 THEN TRUE ELSE reqs[i - 1].pc # "idle")

\* A guard that lets every method through.
UploadMethodAllowedAny(method) == TRUE

\* The method guard of handleUpload.
UploadMethodAllowed(method) == method = "POST"

\* handleUpload up to the file path: the method guard, os.MkdirAll(dataDir),
\* generateUniqueID and filepath.Join(dataDir, dataKey).  The request body is
\* read later, as a stream.
HandleUploadStart(u) ==
  /\ MayArrive(up, u)
  /\ Route(UploadPath) = "handleUpload"
  /\ \E method \in Methods :
       IF ~UploadMethodAllowed(method)
       THEN /\ up' = [up EXCEPT ![u] = [@ EXCEPT !.pc = "done", !.method = method,
                        !.origin = OriginOf(u),
                        !.resp = HttpError(<<"Method not allowed">>, StatusMethodNotAllowed)]]
            /\ UNCHANGED dirExists
       ELSE /\ dirExists' = TRUE
            /\ up' = [up EXCEPT ![u] = [@ EXCEPT !.pc = "create", !.method = method,
                        !.origin = OriginOf(u), !.hdr = UploadCORS(OriginOf(u)),
                        !.n = maxUploadSize,
                        !.dataKey = generateUniqueID(Pid, clock),
                        !.filePath = Join(dataDir, generateUniqueID(Pid, clock))]]
  /\ UNCHANGED <<clock, dir, data, dl>>

\* os.MkdirAll fails: 500 before anything is created.
UploadMkdirFail(u) ==
  /\ MayArrive(up, u)
  /\ up' = [up EXCEPT ![u] = [@ EXCEPT !.pc = "done", !.method = "POST",
              !.origin = OriginOf(u), !.hdr = UploadCORS(OriginOf(u)),
              !.err = "mkdir: permission denied",
              !.resp = HttpError(<<"Internal server error">>, StatusInternalServerError)]]
  /\ UNCHANGED <<clock, dirExists, dir, data, dl>>

\* os.Create(filepath.Join(dataDir, dataKey)): a new empty file, or the
\* existing file of that name truncated to no bytes.
UploadCreate(u) ==
  /\ up[u].pc = "create"
  /\ LET name == FileName(up[u].filePath)
         ino == IF name \in DOMAIN dir THEN dir[name] ELSE FreshInode
     IN /\ dir' = (name :> ino) @@ dir
        /\ data' = [i \in (DOMAIN data) \cup {ino} |-> IF i = ino THEN <<>> ELSE data[i]]
        /\ up' = [up EXCEPT ![u] = [@ EXCEPT !.pc = "copy", !.fd = ino]]
  /\ UNCHANGED <<clock, dirExists, dl>>

\* os.Create fails: 500, nothing is created and nothing is removed.
UploadCreateFail(u) ==
  /\ up[u].pc = "create"
  /\ up' = [up EXCEPT ![u] = [@ EXCEPT !.pc = "done",
              !.err = "open: permission denied",
              !.resp = HttpError(<<"Could not create file">>, StatusInternalServerError)]]
  /\ UNCHANGED <<clock, dirExists, dir, data, dl>>

\* The bytes of the request bodies: the body of request u is a run of the byte
\* u, of any length, so that the bytes of a file tell which request wrote them
\* (0 is the byte of a hole).
BodyBytes(u) == {u}

\* One round of io.Copy: the body yields a byte within the cap of
\* http.MaxBytesReader and the byte is written to the file.
UploadCopyChunk(u) ==
  /\ up[u].pc = "copy"
  /\ up[u].n > 0
  /\ \E b \in BodyBytes(u) :
       /\ data' = [data EXCEPT ![up[u].fd] = WriteAt(@, Len(up[u].body), b)]
       /\ up' = [up EXCEPT ![u] = [@ EXCEPT !.body = Append(@, b), !.n = @ - 1]]
  /\ UNCHANGED <<clock, dirExists, dir, dl>>

\* The body yields a byte and file.Write fails: io.Copy returns the write error.
UploadWriteFail(u) ==
  /\ up[u].pc = "copy"
  /\ up[u].n > 0
  /\ \E b \in BodyBytes(u) :
       up' = [up EXCEPT ![u] = [@ EXCEPT !.pc = "cleanup", !.body = Append(@, b),
                !.err = "write: no space left on device"]]
  /\ UNCHANGED <<clock, dirExists, dir, data, dl>>

\* A cap that is noticed only after the byte beyond it was written to the file.
UploadTooLargeAfterWrite(u) ==
  /\ up[u].pc = "copy"
  /\ up[u].n = 0
  /\ \E b \in BodyBytes(u), declared \in {-1, maxUploadSize + 1} :
       /\ data' = [data EXCEPT ![up[u].fd] = WriteAt(@, Len(up[u].body), b)]
       /\ up' = [up EXCEPT ![u] = [@ EXCEPT !.pc = "cleanup", !.body = Append(@, b),
                   !.declared = declared, !.sent = Len(up[u].body) + 1,
                   !.err = "http: request body too large"]]
  /\ UNCHANGED <<clock, dirExists, dir, dl>>

\* The body yields a byte beyond the cap: http.MaxBytesReader returns
\* "http: request body too large" and the byte is not written.  The body is
\* chunked (no declared length) or declared longer than the cap, since a body
\* with a declared length yields no byte past it.
UploadTooLarge(u) ==
  /\ up[u].pc = "copy"
  /\ up[u].n = 0
  /\ \E b \in BodyBytes(u), declared \in {-1, maxUploadSize + 1} :
       up' = [up EXCEPT ![u] = [@ EXCEPT !.pc = "cleanup", !.body = Append(@, b),
                !.declared = declared, !.sent = Len(up[u].body) + 1,
                !.err = "http: request body too large"]]
  /\ UNCHANGED <<clock, dirExists, dir, data, dl>>

\* The body ends with a transport error (the client is gone before the end of
\* the body): io.Copy returns the read error.  The body is declared one byte
\* longer than what arrived, or longer than the cap.
UploadBodyCut(u) ==
  /\ up[u].pc = "copy"
  /\ \E declared \in {Len(up[u].body) + 1, maxUploadSize + 1} :
       up' = [up EXCEPT ![u] = [@ EXCEPT !.pc = "cleanup", !.declared = declared,
                !.sent = Len(up[u].body), !.err = "unexpected EOF"]]
  /\ UNCHANGED <<clock, dirExists, dir, data, dl>>

\* A response that hands the text of the error to the client.
CopyErrorResponseLeak(err) == HttpError(<<err>>, StatusInternalServerError)

\* The response after a failed copy, by the text of the error.
CopyErrorResponse(err) ==
  IF err = "http: request body too large"
  THEN HttpError(<<"File too large. Maximum size is ">> \o Itoa(maxUploadSize) \o <<" bytes">>,
                 StatusRequestEntityTooLarge)
  ELSE HttpError(<<"Could not save file">>, StatusInternalServerError)

\* The end of a failed upload: the response by the error, then the deferred
\* file.Close.
FailedUpload(r) == [r EXCEPT !.pc = "done", !.fd = 0, !.resp = CopyErrorResponse(r.err)]

\* After a failed copy: os.Remove(filePath) unlinks the name (whatever file
\* carries it now), then the error response and the deferred file.Close.
UploadRemove(u) ==
  /\ up[u].pc = "cleanup"
  /\ LET name == FileName(up[u].filePath)
         dirN == Unlink(name)
         upN == [up EXCEPT ![u] = FailedUpload(@)]
     IN /\ dir' = dirN
        /\ up' = upN
        /\ data' = Collect(data, dirN, upN, dl)
  /\ UNCHANGED <<clock, dirExists, dl>>

\* After a failed copy: os.Remove returns an error, which the handler drops;
\* the name stays.
UploadRemoveFail(u) ==
  /\ up[u].pc = "cleanup"
  /\ LET upN == [up EXCEPT ![u] = FailedUpload(@)]
     IN /\ up' = upN
        /\ data' = Collect(data, dir, upN, dl)
  /\ UNCHANGED <<clock, dirExists, dir, dl>>

\* How a body that reaches io.EOF was framed, as <<declared, sent>>: declared
\* with the length sent, or declared with a length the client then exceeds
\* (net/http ends the body at the declared length; here by as many bytes as
\* take the total over the cap).
EOFFramings(len) ==
  {<<len, len>>, <<len, maxUploadSize + 1>>}

\* The body ends (io.EOF): io.Copy returns nil, the handler answers 200 with
\* the key and the URL it builds from r.TLS and r.Host, then the deferred
\* file.Close.
UploadEOF(u) ==
  /\ up[u].pc = "copy"
  /\ \E f \in EOFFramings(Len(up[u].body)) :
       LET upN == [up EXCEPT ![u] = [@ EXCEPT !.pc = "done", !.fd = 0,
                      !.declared = f[1], !.sent = f[2],
                      !.resp = UploadResponse(up[u].dataKey,
                                 RetrievalURL(TLSOf(u), HostOf(u), up[u].dataKey))]]
       IN /\ up' = upN
          /\ data' = Collect(data, dir, upN, dl)
  /\ UNCHANGED <<clock, dirExists, dir, dl>>


\* --------------------------------------------------------- handleDownload

\* The request paths of the downloads: every key the generator can issue, a key
\* it never issues, the bare prefix, and a last segment "..".
DownloadPaths ==
  {DownloadPrefix \o generateUniqueID(Pid, c) : c \in ClockStart..(ClockStart + MaxTicks)}
    \cup {DownloadPrefix \o <<"x">>, DownloadPrefix, DownloadPrefix \o <<".", ".">>}

\* The method guard of handleDownload.
DownloadMethodAllowed(method) == method = "GET"

\* The uploads that have been answered 200 with the key k.
Succeeded(k) ==
  {u \in Uploads : up[u].pc = "done" /\ up[u].resp.status = StatusOK /\ up[u].dataKey = k}

\* handleDownload up to the existence check: the method guard, the CORS
\* headers, the key from the path, os.Stat and the 404 of a missing file.  The
\* request carries any Origin header; the handler does not read it.
HandleDownloadStart(d) ==
  /\ MayArrive(dl, d)
  /\ \E method \in Methods, path \in {p \in DownloadPaths : Route(p) = "handleDownload"},
        origin \in {Origins[i] : i \in 1..Len(Origins)} :
       LET dataKey == Base(path)
           filePath == Join(dataDir, dataKey)
           req == [dl[d] EXCEPT !.method = method, !.path = path]
           get == [req EXCEPT !.hdr = DownloadCORS, !.dataKey = dataKey,
                     !.filePath = filePath, !.after = Succeeded(dataKey)]
       IN IF ~DownloadMethodAllowed(method)
          THEN dl' = [dl EXCEPT ![d] = [req EXCEPT !.pc = "done",
                        !.resp = HttpError(<<"Method not allowed">>, StatusMethodNotAllowed)]]
          ELSE IF Kind(filePath) = "none"
          THEN dl' = [dl EXCEPT ![d] = [get EXCEPT !.pc = "done",
                        !.resp = HttpError(<<"Could not find the file">>, StatusNotFound)]]
          ELSE dl' = [dl EXCEPT ![d] = [get EXCEPT !.pc = "open"]]
  /\ UNCHANGED <<clock, dirExists, dir, data, up>>

\* An os.Open whose error is answered like a missing file at os.Stat.
DownloadOpenAsNotFound(d) ==
  /\ dl[d].pc = "open"
  /\ dl' = [dl EXCEPT ![d] = [@ EXCEPT !.pc = "done",
              !.resp = HttpError(<<"Could not find the file">>, StatusNotFound)]]
  /\ UNCHANGED <<clock, dirExists, dir, data, up>>

\* os.Open(filePath): a handle on the file the name carries now (-1 stands for
\* the handle of a directory), or 500 when the name is gone.
DownloadOpen(d) ==
  /\ dl[d].pc = "open"
  /\ LET k == Kind(dl[d].filePath)
     IN IF k = "file"
        THEN dl' = [dl EXCEPT ![d] = [@ EXCEPT !.pc = "copy",
                      !.fd = dir[FileName(dl[d].filePath)]]]
        ELSE IF k = "dir"
        THEN dl' = [dl EXCEPT ![d] = [@ EXCEPT !.pc = "copy", !.fd = -1]]
        ELSE dl' = [dl EXCEPT ![d] = [@ EXCEPT !.pc = "done",
                      !.err = "open: no such file or directory",
                      !.resp = HttpError(<<"Could not read the file">>, StatusInternalServerError)]]
  /\ UNCHANGED <<clock, dirExists, dir, data, up>>

\* os.Open fails although the name is there: 500.
DownloadOpenFail(d) ==
  /\ dl[d].pc = "open"
  /\ dl' = [dl EXCEPT ![d] = [@ EXCEPT !.pc = "done", !.err = "open: permission denied",
              !.resp = HttpError(<<"Could not read the file">>, StatusInternalServerError)]]
  /\ UNCHANGED <<clock, dirExists, dir, data, up>>

\* One round of io.Copy(w, file): the bytes the file holds past the handle's
\* offset go to the response.
DownloadRead(d) ==
  /\ dl[d].pc = "copy"
  /\ dl[d].fd > 0
  /\ dl[d].off < Len(data[dl[d].fd])
  /\ LET content == data[dl[d].fd]
     IN dl' = [dl EXCEPT ![d] = [@ EXCEPT !.off = Len(content),
                 !.out = @ \o SubSeq(content, dl[d].off + 1, Len(content))]]
  /\ UNCHANGED <<clock, dirExists, dir, data, up>>

\* An end of a download's stream that leaves the file open.
EndDownloadNoClose(r) == [r EXCEPT !.pc = "done", !.resp = StreamResponse(r.out)]

\* The end of a download's stream: the response is what was written, with
\* status 200, then the deferred file.Close.
EndDownload(r) == [r EXCEPT !.pc = "done", !.fd = 0, !.resp = StreamResponse(r.out)]

\* An end of stream that removes the file it served.
DownloadEOFRemoves(d) ==
  /\ dl[d].pc = "copy"
  /\ dl[d].fd > 0
  /\ dl[d].off >= Len(data[dl[d].fd])
  /\ LET dlN == [dl EXCEPT ![d] = EndDownload(@)]
         dirN == Unlink(FileName(dl[d].filePath))
     IN /\ dl' = dlN
        /\ dir' = dirN
        /\ data' = Collect(data, dirN, up, dlN)
  /\ UNCHANGED <<clock, dirExists, up>>

\* The file has no byte past the offset (io.EOF): io.Copy returns nil.
DownloadEOF(d) ==
  /\ dl[d].pc = "copy"
  /\ dl[d].fd > 0
  /\ dl[d].off >= Len(data[dl[d].fd])
  /\ LET dlN == [dl EXCEPT ![d] = EndDownload(@)]
     IN /\ dl' = dlN
        /\ data' = Collect(data, dir, up, dlN)
  /\ UNCHANGED <<clock, dirExists, dir, up>>

\* Reading a directory fails (EISDIR): io.Copy returns the error, the handler
\* logs it and returns; no header was written, so the status is 200.
DownloadReadDir(d) ==
  /\ dl[d].pc = "copy"
  /\ dl[d].fd = -1
  /\ dl' = [dl EXCEPT ![d] = EndDownload([@ EXCEPT !.err = "read: is a directory"])]
  /\ UNCHANGED <<clock, dirExists, dir, data, up>>

\* file.Read fails: io.Copy returns the error, the handler logs it and
\* returns with what was written so far.
DownloadReadFail(d) ==
  /\ dl[d].pc = "copy"
  /\ dl[d].fd > 0
  /\ LET dlN == [dl EXCEPT ![d] = EndDownload([@ EXCEPT !.err = "read: input/output error"])]
     IN /\ dl' = dlN
        /\ data' = Collect(data, dir, up, dlN)
  /\ UNCHANGED <<clock, dirExists, dir, up>>

\* ------------------------------------------------------------ specification

\* The steps in which the store and the client's connection do what they are
\* asked.
Reliable ==
  \/ Tick
  \/ \E u \in Uploads : HandleUploadStart(u)
  \/ \E u \in Uploads : UploadCreate(u)
  \/ \E u \in Uploads : UploadCopyChunk(u)
  \/ \E u \in Uploads : UploadTooLarge(u)
  \/ \E u \in Uploads : UploadBodyCut(u)
  \/ \E u \in Uploads : UploadRemove(u)
  \/ \E u \in Uploads : UploadEOF(u)
  \/ \E d \in Downloads : HandleDownloadStart(d)
  \/ \E d \in Downloads : DownloadOpen(d)
  \/ \E d \in Downloads : DownloadRead(d)
  \/ \E d \in Downloads : DownloadEOF(d)
  \/ \E d \in Downloads : DownloadReadDir(d)

\* The steps in which a call into the store returns an error.
Faulty ==
  \/ \E u \in Uploads : UploadMkdirFail(u)
  \/ \E u \in Uploads : UploadCreateFail(u)
  \/ \E u \in Uploads : UploadWriteFail(u)
  \/ \E u \in Uploads : UploadRemoveFail(u)
  \/ \E d \in Downloads : DownloadOpenFail(d)
  \/ \E d \in Downloads : DownloadReadFail(d)

Next == Reliable \/ Faulty

\* Every behaviour of the service, store errors included.
Spec == Init /\ [][Next]_vars

\* The behaviours in which no call into the store returns an error.
SpecReliable == Init /\ [][Reliable]_vars


\* ------------------------------------------------------------------ claims

Done(r) == r.pc = "done"
Answered(r, code) == Done(r) /\ r.resp.status = code

\* The cleaned path of the blob of key k.
BlobPath(k) == Join(dataDir, k)

\* The store holds a blob under the key k.
Stored(k) == Kind(BlobPath(k)) = "file"

\* The bytes the store holds under the key k.
StoredBytes(k) == data[dir[FileName(BlobPath(k))]]

\* An upload has drawn its key.
HasKey(u) == up[u].dataKey # <<>>

\* No other upload drew the key of upload u.
SoleKey(u) == \A o \in Uploads \ {u} : up[o].dataKey # up[u].dataKey

\* C1: round trip.  A download of key K that began after an upload of body B was
\* answered 200 with K, and that is answered 200, carries exactly B.
C1_RoundTrip ==
  \A d \in Downloads : \A u \in dl[d].after :
    Answered(dl[d], StatusOK) => dl[d].resp.body = up[u].body

\* C2: size boundary.  An upload that delivered exactly maxUploadSize bytes is
\* not answered 413; an upload that delivered more is answered 413 and leaves
\* no blob under its key (stated for an upload whose key no other upload drew).
C2_SizeBoundary ==
  \A u \in Uploads :
    /\ (Done(up[u]) /\ Len(up[u].body) = maxUploadSize)
         => up[u].resp.status # StatusRequestEntityTooLarge
    /\ (Done(up[u]) /\ Len(up[u].body) > maxUploadSize /\ SoleKey(u))
         => (up[u].resp.status = StatusRequestEntityTooLarge /\ ~Stored(up[u].dataKey))

\* C3: partial-failure invariant.  An upload that drew a key and ended with an
\* outcome other than 200 leaves no blob under that key (stated for an upload
\* whose key no other upload drew).
C3_NoBlobAfterFailure ==
  \A u \in Uploads :
    (Done(up[u]) /\ HasKey(u) /\ SoleKey(u) /\ up[u].resp.status # StatusOK)
      => ~Stored(up[u].dataKey)

\* C4: key uniqueness.  Two uploads never draw the same key.
C4_KeysDistinct ==
  \A u1, u2 \in Uploads :
    (u1 # u2 /\ HasKey(u1) /\ HasKey(u2)) => up[u1].dataKey # up[u2].dataKey

\* C5: blob stability.  After an upload was answered 200 with key K, the store
\* holds under K exactly the bytes of that upload, whatever other requests do.
C5_BlobStable ==
  \A u \in Uploads :
    Answered(up[u], StatusOK)
      => (Stored(up[u].dataKey) /\ StoredBytes(up[u].dataKey) = up[u].body)

\* C6: no visible partial blob.  A download of a blob that is answered 200
\* carries the whole body of an upload that was answered 200.
C6_NoPartialBlobServed ==
  \A d \in Downloads :
    (Answered(dl[d], StatusOK) /\ UnderRoot(dl[d].filePath))
      => \E u \in Uploads : Answered(up[u], StatusOK) /\ up[u].body = dl[d].resp.body

\* C7: exactly one blob per successful upload.  When no upload is in progress,
\* the store holds as many blobs as uploads were answered 200.
C7_OneBlobPerSuccess ==
  (\A u \in Uploads : up[u].pc \in {"idle", "done"})
    => Cardinality(DOMAIN dir) = Cardinality({u \in Uploads : Answered(up[u], StatusOK)})

\* The 404 body the repository documents: {"message": "Could not find the file."}.
DocumentedNotFound ==
  [status |-> StatusNotFound, ctype |-> "application/json",
   text |-> <<"{\"message\": \"Could not find the file.\"}">>,
   dataKey |-> <<>>, url |-> <<>>, body |-> <<>>]

\* C8: missing key.  A GET of a key that no upload returned is answered 404 with
\* the documented body.
C8_MissingKey ==
  \A d \in Downloads :
    (Done(dl[d]) /\ dl[d].method = "GET"
       /\ ~\E u \in Uploads : Answered(up[u], StatusOK) /\ up[u].dataKey = dl[d].dataKey)
      => dl[d].resp = DocumentedNotFound

\* C9: method guard.  A request to the upload route whose method is not POST,
\* and a request to the download route whose method is not GET, is answered 405
\* in its first step, and that step leaves the store as it was: no directory, no
\* file, no byte changes, and no handle is opened.
C9_MethodGuard ==
  [][ /\ \A u \in Uploads :
           (up[u].pc = "idle" /\ up'[u].pc # "idle" /\ up'[u].method # "POST")
             => /\ Answered(up'[u], StatusMethodNotAllowed)
                /\ up'[u].fd = 0 /\ up'[u].dataKey = <<>>
                /\ dirExists' = dirExists /\ dir' = dir /\ data' = data
      /\ \A d \in Downloads :
           (dl[d].pc = "idle" /\ dl'[d].pc # "idle" /\ dl'[d].method # "GET")
             => /\ Answered(dl'[d], StatusMethodNotAllowed)
                /\ dl'[d].fd = 0 /\ dl'[d].resp.body = <<>>
                /\ dirExists' = dirExists /\ dir' = dir /\ data' = data
    ]_vars

\* C9's case: a GET on the upload route and a POST on the download route were
\* both answered 405 while the store held a blob.
C9_Witness ==
  /\ \E u \in Uploads : up[u].method = "GET" /\ Answered(up[u], StatusMethodNotAllowed)
  /\ \E d \in Downloads : dl[d].method = "POST" /\ Answered(dl[d], StatusMethodNotAllowed)
  /\ DOMAIN dir # {}

\* C10: key confinement.  The path a download checks and opens names an entry
\* directly under the storage root.
C10_KeyConfined ==
  \A d \in Downloads :
    (dl[d].method = "GET" /\ dl[d].pc # "idle") => UnderRoot(dl[d].filePath)

\* The texts of the errors the store returns to handleUpload.
StoreErrors ==
  {"mkdir: permission denied", "open: permission denied", "write: no space left on device"}

\* The fixed messages of handleUpload's 500 responses.
GenericMessages ==
  {<<"Internal server error", "\n">>, <<"Could not create file", "\n">>,
   <<"Could not save file", "\n">>}

\* C11: an upload that fails because the store cannot be written (creating the
\* directory, creating the file or writing a byte fails) is answered 500 with
\* one of the fixed messages, which does not hold the text of the store's
\* error; it is never answered 200 or 413.
C11_StoreFailureIs500 ==
  \A u \in Uploads :
    (Done(up[u]) /\ up[u].err \in StoreErrors)
      => /\ up[u].resp.status = StatusInternalServerError
         /\ up[u].resp.text \in GenericMessages
         /\ \A i \in 1..Len(up[u].resp.text) : up[u].resp.text[i] # up[u].err

\* A write to the file has failed and the upload has been answered 500.
C11_Witness ==
  \E u \in Uploads :
    /\ Done(up[u]) /\ up[u].err = "write: no space left on device"
    /\ up[u].resp.status = StatusInternalServerError
    /\ Len(up[u].body) = maxUploadSize

\* C12: an upload whose client is gone before the whole body arrived, with no
\* more than maxUploadSize bytes received, is answered 500 and not 413, whatever
\* length it declared, and its partial blob is removed.
C12_TruncatedUpload ==
  \A u \in Uploads :
    (Done(up[u]) /\ up[u].err = "unexpected EOF" /\ SoleKey(u))
      => /\ up[u].resp.status = StatusInternalServerError
         /\ ~Stored(up[u].dataKey)

\* C13: the size check counts the bytes the client sends, not the length it
\* declares: an upload that declares no more than maxUploadSize bytes and sends
\* more is answered 413 and leaves no blob.
C13_CapOnBytesSent ==
  \A u \in Uploads :
    (Done(up[u]) /\ up[u].method = "POST" /\ up[u].declared \in 0..maxUploadSize
       /\ up[u].sent > maxUploadSize)
      => /\ up[u].resp.status = StatusRequestEntityTooLarge
         /\ ~Stored(up[u].dataKey)

Index(s, t, from) ==
  LET hits == {i \in from..(Len(s) - Len(t) + 1) : SubSeq(s, i, i + Len(t) - 1) = t}
  IN IF hits = {} THEN 0 ELSE CHOOSE i \in hits : \A j \in hits : i <= j

\* The parts of an absolute URL as a client parses it: the scheme before the
\* first "://", the host up to the next "/", the path from that "/" on.
ParseURL(url) ==
  LET c == Index(url, <<":", "/", "/">>, 1)
      p == IF c = 0 THEN 0 ELSE Index(url, <<"/">>, c + 3)
  IN IF c = 0 \/ p = 0
     THEN [scheme |-> <<>>, host |-> <<>>, path |-> <<>>]
     ELSE [scheme |-> SubSeq(url, 1, c - 1), host |-> SubSeq(url, c + 3, p - 1),
           path |-> SubSeq(url, p, Len(url))]

C16_TooLargeBody ==
  \A u \in Uploads :
    Answered(up[u], StatusRequestEntityTooLarge)
      => /\ up[u].resp.ctype = "application/json"
         /\ Index(up[u].resp.text, Itoa(maxUploadSize), 1) # 0

\* C17: every response of the download handler carries
\* Access-Control-Allow-Origin: *, whatever the request's Origin and whatever
\* the outcome.
C17_DownloadCORS ==
  \A d \in Downloads :
    Done(dl[d])
      => /\ "Access-Control-Allow-Origin" \in DOMAIN dl[d].hdr
         /\ dl[d].hdr["Access-Control-Allow-Origin"] = "*"

\* C18: every response of the upload handler carries
\* Access-Control-Allow-Origin with the request's Origin,
\* Access-Control-Allow-Methods: POST and Access-Control-Allow-Headers:
\* Content-Type, whatever the outcome.
C18_UploadCORSReflect ==
  \A u \in Uploads :
    Done(up[u]) => up[u].hdr = UploadCORS(up[u].origin)

\* The origins allowed to upload: the origin the repository's tests send as
\* the valid one.
AllowedOrigins == {"https://excalidraw.com"}

\* C19: a POST to the upload path whose Origin is not an allowed origin is not
\* processed (no key is drawn, no file is created or written), is not answered
\* with a success status, and stores nothing.
C19_UntrustedOriginRejected ==
  \A u \in Uploads :
    (up[u].pc # "idle" /\ up[u].method = "POST"
       /\ up[u].origin \notin AllowedOrigins \cup {""})
      => /\ Done(up[u])
         /\ up[u].resp.status \notin 200..299
         /\ up[u].dataKey = <<>>
         /\ up[u].fd = 0

\* The clock readings at which the generator of this process issues the key k.
IssueTimes(k) ==
  {c \in ClockStart..(ClockStart + MaxTicks) : generateUniqueID(Pid, c) = k}

\* C20: the keys do not tell the order of issuance: for two uploads with
\* different keys, the keys are consistent with the first being issued before
\* the second and with the second being issued before the first.
C20_KeyOrderHidden ==
  \A u, v \in Uploads :
    (HasKey(u) /\ HasKey(v) /\ up[u].dataKey # up[v].dataKey)
      => /\ \E a \in IssueTimes(up[u].dataKey), b \in IssueTimes(up[v].dataKey) : a < b
         /\ \E a \in IssueTimes(up[u].dataKey), b \in IssueTimes(up[v].dataKey) : b < a

\* C21: every request that hit a fault of the store (an upload whose mkdir,
\* create or write failed; a download of a blob whose open or read failed) is
\* answered 404, 413 or 500 and never 200.
C21_FaultConversion ==
  /\ \A u \in Uploads :
        (Done(up[u]) /\ up[u].err \in StoreErrors)
          => up[u].resp.status \in {StatusNotFound, StatusRequestEntityTooLarge,
                                    StatusInternalServerError}
  /\ \A d \in Downloads :
        (Done(dl[d]) /\ UnderRoot(dl[d].filePath) /\ dl[d].err # "")
          => dl[d].resp.status \in {StatusNotFound, StatusRequestEntityTooLarge,
                                    StatusInternalServerError}

\* C22: a handler that has returned holds no file handle, on every exit path,
\* and every file without a name is held open by a handler that is still
\* running: no sequence of requests leaves an open handle behind.
C22_HandlesReleased ==
  /\ \A u \in Uploads : Done(up[u]) => up[u].fd = 0
  /\ \A d \in Downloads : Done(dl[d]) => dl[d].fd = 0
  /\ \A i \in DOMAIN data :
        \/ \E k \in DOMAIN dir : dir[k] = i
        \/ \E u \in Uploads : up[u].fd = i /\ up[u].pc \in {"copy", "cleanup"}
        \/ \E d \in Downloads : dl[d].fd = i /\ dl[d].pc = "copy"

\* An upload over the limit, an upload cut by its client and a download whose
\* stream failed after it sent bytes have all returned.
C22_Witness ==
  /\ \E u \in Uploads : Done(up[u]) /\ up[u].err = "http: request body too large"
  /\ \E u \in Uploads : Done(up[u]) /\ up[u].err = "unexpected EOF"
  /\ \E d \in Downloads :
        Done(dl[d]) /\ dl[d].err = "read: input/output error" /\ dl[d].out # <<>>

\* C23: a step of a download, whatever its key and outcome, leaves the set of
\* stored keys and the bytes of every blob as they were, also while uploads
\* are running.
C23_DownloadReadOnly ==
  [][ dl' # dl
        => /\ dir' = dir
           /\ dirExists' = dirExists
           /\ \A k \in DOMAIN dir : data'[dir[k]] = data[dir[k]]
    ]_vars

\* A download was answered 200 with bytes of a blob while an upload is writing.
C23_Witness ==
  \E d \in Downloads, u \in Uploads :
    /\ Answered(dl[d], StatusOK) /\ dl[d].resp.body # <<>>
    /\ up[u].pc = "copy"
    /\ DOMAIN dir # {}

\* C24: a step of an upload, whatever its outcome, leaves alone every blob that
\* belongs to another upload: a blob stored for an upload that was answered 200
\* keeps its name and its bytes.
C24_UploadIsolation ==
  [][ \A u \in Uploads :
        up'[u] # up[u]
          => \A o \in Uploads \ {u} :
               (Answered(up[o], StatusOK) /\ Stored(up[o].dataKey))
                 => LET name == FileName(BlobPath(up[o].dataKey))
                    IN /\ name \in DOMAIN dir'
                       /\ data'[dir'[name]] = data[dir[name]]
    ]_vars

\* C25: in every reachable state every file of the store, linked or still held
\* open, complete or being written, holds at most maxUploadSize bytes.
C25_SizeInvariant ==
  \A i \in DOMAIN data : Len(data[i]) <= maxUploadSize

\* An upload has hit the cap and not yet cleaned up; its file holds exactly
\* maxUploadSize bytes.
C25_Witness ==
  \E u \in Uploads :
    /\ up[u].pc = "cleanup" /\ up[u].err = "http: request body too large"
    /\ up[u].fd \in DOMAIN data
    /\ Len(data[up[u].fd]) = maxUploadSize

\* C26: when an upload sends its 200 response, the blob under the key it
\* returns holds every byte of its body; and a download of a blob that started
\* after an upload of that key was answered 200 delivers no fewer bytes than
\* that upload's body.
C26_KeyAfterWrite ==
  [][ /\ \A u \in Uploads :
           (up[u].pc = "copy" /\ Answered(up'[u], StatusOK))
             => LET name == FileName(BlobPath(up'[u].dataKey))
                IN /\ name \in DOMAIN dir'
                   /\ data'[dir'[name]] = up'[u].body
      /\ \A d \in Downloads :
           (dl[d].pc # "done" /\ Answered(dl'[d], StatusOK) /\ UnderRoot(dl'[d].filePath))
             => \A u \in dl'[d].after : Len(dl'[d].resp.body) >= Len(up[u].body)
    ]_vars

\* A step of upload u after its key was drawn: a call into the store returns
\* (with or without an error), or the request body yields a byte, ends or
\* breaks.
UploadStep(u) ==
  \/ UploadCreate(u) \/ UploadCreateFail(u)
  \/ UploadCopyChunk(u) \/ UploadWriteFail(u) \/ UploadTooLarge(u)
  \/ UploadBodyCut(u) \/ UploadEOF(u)
  \/ UploadRemove(u) \/ UploadRemoveFail(u)

\* The behaviours in which every call into the store returns and every client
\* finishes or drops its body: a handler that can take a step takes one.
SpecFair == Spec /\ \A u \in Uploads : WF_vars(UploadStep(u))

\* The blob of upload u is complete (the upload was answered 200 and the store
\* holds its body under its key) or removed.
CompleteOrRemoved(u) ==
  \/ ~HasKey(u)
  \/ FileName(up[u].filePath) \notin DOMAIN dir
  \/ /\ up[u].resp.status = StatusOK
     /\ data[dir[FileName(up[u].filePath)]] = up[u].body

\* C27: every upload that has created its blob eventually returns with 200,
\* 413 or 500, and at that point its blob is complete or removed.
C27_UploadCompletes ==
  \A u \in Uploads :
    (up[u].pc = "copy")
      ~> (/\ Done(up[u])
          /\ up[u].resp.status \in {StatusOK, StatusRequestEntityTooLarge,
                                    StatusInternalServerError}
          /\ CompleteOrRemoved(u))

====
